---------------------------- MODULE Spec2Model ----------------------------
(***************************************************************************)
(* Model of the farcaster-digest server (src/src/index.js): the engagement *)
(* score, the per-channel aggregation with its 48 hour window, ranking and *)
(* top-5 cut, the 30 minute digest cache and the GET / handler.            *)
(*                                                                         *)
(* Conventions.                                                            *)
(*  - A JavaScript value that may be undefined is a sequence of length 0   *)
(*    or 1: <<>> is undefined (a missing field), <<n>> is the number n.    *)
(*    A list is represented by its length where the code only reads        *)
(*    `.length`.                                                           *)
(*  - Time is in milliseconds since an arbitrary origin; Date.now() is the *)
(*    variable clock and is always positive.                               *)
(*  - An async function runs atomically from one suspension point (an      *)
(*    awaited provider call or an awaited setTimeout) to the next; several *)
(*    GET / handlers interleave at these points only.                      *)
(*  - The fields text, author and authorFid of a cast are not modelled: no *)
(*    decision of the pipeline reads them.                                 *)
(***************************************************************************)
EXTENDS Integers, Sequences, FiniteSets, TLC

VARIABLES
    clock,          \* Date.now()
    cache,          \* the cache object: [data, timestamp]
    CHANNEL_USERS,  \* the configured channels, in key order: <<[channel, users]>>
    req,            \* one record per GET / handler activation
    arg,            \* input of the pure function under check (score harness)
    ret             \* its result

vars == <<clock, cache, CHANNEL_USERS, req, arg, ret>>

----------------------------------------------------------------------------
(* Bounds of the model *)

StartClock == 200000000   \* Date.now() when the server starts (> 48 h)
MaxReqs == 2              \* handler activations that may overlap
MaxShortTicks == 2        \* 2 s steps of the clock between two 30 min steps
MaxRankTicks == 3         \* 2 s steps of the clock while one channel is ranked
MaxCacheTicks == 4        \* 2 s steps of the clock around one handler's passes
MaxLongTicks == 1         \* 30 min steps of the clock
MaxPage == 3              \* casts in one provider response
MaxCount == 2             \* largest engagement count of the score harness
MaxPassTicks == 7         \* 2 s steps of the clock during one long pass
MaxLiveTicks == 2         \* 2 s steps of the clock while no timer is pending

----------------------------------------------------------------------------
(* Program constants *)

CACHE_DURATION == 30 * 60 * 1000
WINDOW_MS == 48 * 60 * 60 * 1000
DELAY_MS == 2000
MAX_USERS == 4
TOP_CASTS == 5
FETCH_LIMIT == 25

----------------------------------------------------------------------------
(* JavaScript values *)

Truthy(v) == v # <<>> /\ v[1] # 0

\* a || b
OrJs(a, b) == IF Truthy(a) THEN a ELSE b

\* the number a value denotes once it went through `|| 0`
NumOf(v) == OrJs(v, <<0>>)[1]

Min(a, b) == IF a <= b THEN a ELSE b

----------------------------------------------------------------------------
(* Casts as the provider returns them.                                     *)
(* [hash, timestamp, reactions, replies, likes, recasts] where             *)
(*   timestamp = [kind, ms]: "iso" a well-formed date string denoting the  *)
(*               instant ms, "invalid" a string Date cannot parse,         *)
(*               "undefined" no timestamp field, "null" the value null;    *)
(*   reactions = <<>> or <<[likes, recasts]>>, each the optional length of *)
(*               the list;                                                 *)
(*   replies   = <<>> or <<[count, length]>>;                              *)
(*   likes, recasts = optional length of the top-level lists.              *)
(* An element of the list that is null instead of an object is NullCast:   *)
(* reading a property of it throws a TypeError.                            *)

Iso(ms) == [kind |-> "iso", ms |-> ms]
NoTimestamp == [kind |-> "undefined", ms |-> 0]
BadTimestamp == [kind |-> "invalid", ms |-> 0]
NullTimestamp == [kind |-> "null", ms |-> 0]

NullCast ==
    [ hash |-> "(null)", timestamp |-> [kind |-> "TypeError", ms |-> 0],
      reactions |-> <<>>, replies |-> <<>>, likes |-> <<>>, recasts |-> <<>> ]

\* new Date(cast.timestamp).getTime(): <<>> is NaN (Invalid Date)
DateParse(ts) ==
    CASE ts.kind = "iso" -> <<ts.ms>>
      [] ts.kind = "null" -> <<0>>
      [] OTHER -> <<>>

\* cast.reactions?.likes?.length
ReactionsLikes(cast) ==
    IF cast.reactions = <<>> THEN <<>> ELSE cast.reactions[1].likes

\* cast.reactions?.recasts?.length
ReactionsRecasts(cast) ==
    IF cast.reactions = <<>> THEN <<>> ELSE cast.reactions[1].recasts

\* cast.replies?.count
RepliesCount(cast) ==
    IF cast.replies = <<>> THEN <<>> ELSE cast.replies[1].count

\* cast.replies?.length
RepliesLength(cast) ==
    IF cast.replies = <<>> THEN <<>> ELSE cast.replies[1].length

calculateScore_Unweighted(cast) ==
    NumOf(ReactionsLikes(cast)) + NumOf(RepliesCount(cast))
        + NumOf(ReactionsRecasts(cast))

calculateScore(cast) ==
    LET likes == NumOf(ReactionsLikes(cast))
        replies == NumOf(RepliesCount(cast))
        recasts == NumOf(ReactionsRecasts(cast))
    IN  likes + (replies * 2) + (recasts * 3)

\* the record built by .map(cast => ({...})) 
DigestCast(cast) ==
    [ likes     |-> NumOf(OrJs(ReactionsLikes(cast), cast.likes)),
      replies   |-> NumOf(OrJs(RepliesCount(cast), RepliesLength(cast))),
      recasts   |-> NumOf(OrJs(ReactionsRecasts(cast), cast.recasts)),
      timestamp |-> cast.timestamp,
      hash      |-> cast.hash,
      score     |-> calculateScore(cast) ]

\* the .filter callback: castDate >= oneDayAgo (false when castDate is NaN)
InWindow_Exclusive(cast, oneDayAgo) ==
    LET castDate == DateParse(cast.timestamp)
    IN  castDate # <<>> /\ castDate[1] > oneDayAgo

InWindow_NaNPasses(cast, oneDayAgo) ==
    LET castDate == DateParse(cast.timestamp)
    IN  castDate = <<>> \/ castDate[1] >= oneDayAgo

InWindow_UpperBound(cast, oneDayAgo) ==
    LET castDate == DateParse(cast.timestamp)
    IN  /\ castDate # <<>>
        /\ castDate[1] >= oneDayAgo
        /\ castDate[1] <= oneDayAgo + WINDOW_MS

InWindow(cast, oneDayAgo) ==
    LET castDate == DateParse(cast.timestamp)
    IN  castDate # <<>> /\ castDate[1] >= oneDayAgo

\* the .sort comparator: negative when a goes first
CompareScore_Ascending(a, b) == a.score - b.score

CompareScore(a, b) == b.score - a.score

\* Array.prototype.sort is stable: x goes before the first element that the
\* comparator puts strictly after it
RECURSIVE InsertSorted(_, _)
InsertSorted_Unstable(sorted, x) ==
    IF sorted = <<>> THEN <<x>>
    ELSE IF CompareScore(Head(sorted), x) >= 0 THEN <<x>> \o sorted
    ELSE <<Head(sorted)>> \o InsertSorted(Tail(sorted), x)

InsertSorted(sorted, x) ==
    IF sorted = <<>> THEN <<x>>
    ELSE IF CompareScore(Head(sorted), x) > 0 THEN <<x>> \o sorted
    ELSE <<Head(sorted)>> \o InsertSorted(Tail(sorted), x)

RECURSIVE SortCasts(_)
SortCasts(s) ==
    IF s = <<>> THEN <<>>
    ELSE InsertSorted(SortCasts(SubSeq(s, 1, Len(s) - 1)), s[Len(s)])

\* .slice(0, n)
Slice_All(s, n) == s

Slice(s, n) == SubSeq(s, 1, Min(Len(s), n))

MapDigestCast(s) == [i \in 1..Len(s) |-> DigestCast(s[i])]

FilterWindow(s, oneDayAgo) == SelectSeq(s, LAMBDA c : InWindow(c, oneDayAgo))

RankCasts_Unsorted(allCasts, oneDayAgo) ==
    Slice(MapDigestCast(FilterWindow(allCasts, oneDayAgo)), TOP_CASTS)

\* lines 183-200: filter, map, sort, slice
RankCasts(allCasts, oneDayAgo) ==
    Slice(SortCasts(MapDigestCast(FilterWindow(allCasts, oneDayAgo))), TOP_CASTS)

\* line 185: the .filter callback reads cast.timestamp of a null element
FilterThrows(allCasts) ==
    \E i \in 1..Len(allCasts) : allCasts[i] = NullCast

----------------------------------------------------------------------------
(* Author references of CHANNEL_USERS: a FID (number) or a username        *)
(* (string, a sequence of characters).                                     *)

Fid(n) == [type |-> "number", num |-> n, str |-> <<>>]
Username(s) == [type |-> "string", num |-> 0, str |-> s]

Digits == <<"0", "1", "2", "3", "4", "5", "6", "7", "8", "9">>
IsDigit(c) == \E i \in 1..10 : Digits[i] = c
DigitVal(c) == (CHOOSE i \in 1..10 : Digits[i] = c) - 1

RECURSIVE ParseDigits(_, _)
ParseDigits(str, acc) ==
    IF str = <<>> \/ ~IsDigit(Head(str)) THEN acc
    ELSE ParseDigits(Tail(str), acc * 10 + DigitVal(Head(str)))

HexDigits == Digits \o <<"a", "b", "c", "d", "e", "f">>
UpperHexDigits == Digits \o <<"A", "B", "C", "D", "E", "F">>
IsHexDigit(c) == \E i \in 1..16 : HexDigits[i] = c \/ UpperHexDigits[i] = c
HexVal(c) == (CHOOSE i \in 1..16 : HexDigits[i] = c \/ UpperHexDigits[i] = c) - 1

RECURSIVE ParseHex(_, _)
ParseHex(str, acc) ==
    IF str = <<>> \/ ~IsHexDigit(Head(str)) THEN acc
    ELSE ParseHex(Tail(str), acc * 16 + HexVal(Head(str)))

\* parseInt(string) without a radix: after a prefix 0x or 0X the value of the
\* leading hexadecimal digits, else the value of the leading decimal digits;
\* <<>> (NaN) without any digit.  The strings of the model carry no white
\* space and no sign.
ParseInt(str) ==
    IF Len(str) >= 2 /\ str[1] = "0" /\ str[2] \in {"x", "X"}
    THEN LET rest == SubSeq(str, 3, Len(str))
         IN  IF rest = <<>> \/ ~IsHexDigit(Head(rest)) THEN <<>>
             ELSE <<ParseHex(rest, 0)>>
    ELSE IF str = <<>> \/ ~IsDigit(Head(str)) THEN <<>>
    ELSE <<ParseDigits(str, 0)>>

\* line 132: typeof userIdentifier === 'number' ? userIdentifier : parseInt(..)
FidOf(userIdentifier) ==
    IF userIdentifier.type = "number" THEN <<userIdentifier.num>>
    ELSE ParseInt(userIdentifier.str)

----------------------------------------------------------------------------
(* The cache object and the GET / handler                                  *)

Reqs == 1..MaxReqs

EmptyCache == [data |-> <<>>, timestamp |-> <<>>]

\* line 405
CacheAge(c, now) ==
    IF Truthy(c.timestamp) THEN <<now - c.timestamp[1]>> ELSE <<>>

\* line 406
IsCacheValid_Inclusive(forceRefresh, c, now) ==
    /\ ~forceRefresh
    /\ c.data # <<>>
    /\ Truthy(c.timestamp)
    /\ now - c.timestamp[1] <= CACHE_DURATION

IsCacheValid_Reversed(forceRefresh, c, now) ==
    /\ ~forceRefresh
    /\ c.data # <<>>
    /\ Truthy(c.timestamp)
    /\ now - c.timestamp[1] > CACHE_DURATION

IsCacheValid_IgnoresRefresh(forceRefresh, c, now) ==
    /\ c.data # <<>>
    /\ Truthy(c.timestamp)
    /\ now - c.timestamp[1] < CACHE_DURATION

IsCacheValid(forceRefresh, c, now) ==
    /\ ~forceRefresh
    /\ c.data # <<>>
    /\ Truthy(c.timestamp)
    /\ now - c.timestamp[1] < CACHE_DURATION

\* lines 438-439
CacheWrite_DataOnly(c, digest, now) == [data |-> <<digest>>, timestamp |-> c.timestamp]

CacheWrite(c, digest, now) == [data |-> <<digest>>, timestamp |-> <<now>>]

\* a handler activation: its position and the locals of app.get('/') and of
\* the fetchChannelCasts call it awaits; calls is the list of provider calls
\* it has issued, each with its outcome
IdleReq ==
    [ pc           |-> "idle",
      forceRefresh |-> FALSE,
      cacheAge     |-> <<>>,     \* line 405: null, or now - cache.timestamp
      ci           |-> 0,        \* index of `channel` in Object.keys(CHANNEL_USERS)
      digest       |-> <<>>,
      now          |-> 0,        \* fetchChannelCasts: now.getTime()
      ui           |-> 0,        \* index of userIdentifier in users
      fid          |-> <<>>,
      allCasts     |-> <<>>,
      timer        |-> 0,        \* when the pending setTimeout fires
      sent         |-> <<>>,     \* what generateHTML / res.send were given
      calls        |-> <<>> ]

Entry(channel, casts, error) ==
    [channel |-> channel, casts |-> casts, error |-> error]

Call(kind, s, who) ==
    [kind |-> kind, ci |-> s.ci, ui |-> s.ui, who |-> who, outcome |-> "pending"]

SetOutcome(calls, outcome) ==
    [calls EXCEPT ![Len(calls)].outcome = outcome]

RECURSIVE BeginChannel(_, _, _, _)
RECURSIVE BeginUser(_, _, _)
RECURSIVE FinishChannel(_, _, _)

\* lines 126-156: the loop reaches userIdentifier number s.ui and runs to
\* its first provider call; after the last user the channel is ranked
BeginUser_FanOut(s, cfg, clk) ==
    LET users == Slice(cfg[s.ci].users, MAX_USERS)
    IN  IF s.ui > Len(users) THEN FinishChannel(s, cfg, clk)
        ELSE [s EXCEPT !.pc = "fetch", !.fid = <<0>>, !.ui = Len(users),
                 !.calls = @ \o [i \in 1..(Len(users) - s.ui + 1) |->
                                    [kind |-> "fetch", ci |-> s.ci,
                                     ui |-> s.ui + i - 1, who |-> <<0>>,
                                     outcome |-> "pending"]]]

BeginUser(s, cfg, clk) ==
    LET users == Slice(cfg[s.ci].users, MAX_USERS)
    IN  IF s.ui > Len(users) THEN FinishChannel(s, cfg, clk)
        ELSE LET fid == FidOf(users[s.ui])
             IN  IF fid = <<>>
                 THEN [s EXCEPT !.pc = "lookup", !.fid = <<>>,
                          !.calls = Append(@, Call("lookup", s, users[s.ui].str))]
                 ELSE [s EXCEPT !.pc = "fetch", !.fid = fid,
                          !.calls = Append(@, Call("fetch", s, fid))]

\* lines 183-206 and 430: the ranked casts, or [] from the catch of
\* fetchChannelCasts, become the channel's entry; its error is null
FinishChannel_NoEntryOnThrow(s, cfg, clk) ==
    IF FilterThrows(s.allCasts) THEN BeginChannel(s, s.ci + 1, cfg, clk)
    ELSE BeginChannel([s EXCEPT !.digest =
                          Append(@, Entry(cfg[s.ci].channel,
                                          RankCasts(s.allCasts, s.now - WINDOW_MS),
                                          <<>>))],
                      s.ci + 1, cfg, clk)

FinishChannel(s, cfg, clk) ==
    LET oneDayAgo == s.now - WINDOW_MS
        casts == IF FilterThrows(s.allCasts) THEN <<>>
                 ELSE RankCasts(s.allCasts, oneDayAgo)
    IN  BeginChannel([s EXCEPT !.digest =
                         Append(@, Entry(cfg[s.ci].channel, casts, <<>>))],
                     s.ci + 1, cfg, clk)

\* lines 426-444 and 111-121: the for loop over channels reaches channel
\* number ci; after the last channel the response is sent
BeginChannel_EmptyIsError(s, ci, cfg, clk) ==
    IF ci > Len(cfg)
    THEN [s EXCEPT !.pc = "servedFresh",
             !.sent = <<[digest |-> s.digest, cacheTimestamp |-> <<clk>>]>>]
    ELSE IF Len(cfg[ci].users) = 0
    THEN BeginChannel([s EXCEPT !.digest =
                          Append(@, Entry(cfg[ci].channel, <<>>, <<"No users">>))],
                      ci + 1, cfg, clk)
    ELSE BeginUser([s EXCEPT !.ci = ci, !.now = clk, !.ui = 1,
                       !.fid = <<>>, !.allCasts = <<>>], cfg, clk)

BeginChannel(s, ci, cfg, clk) ==
    IF ci > Len(cfg)
    THEN [s EXCEPT !.pc = "servedFresh",
             !.sent = <<[digest |-> s.digest, cacheTimestamp |-> <<clk>>]>>]
    ELSE IF Len(cfg[ci].users) = 0
    THEN BeginChannel([s EXCEPT !.digest =
                          Append(@, Entry(cfg[ci].channel, <<>>, <<>>))],
                      ci + 1, cfg, clk)
    ELSE BeginUser([s EXCEPT !.ci = ci, !.now = clk, !.ui = 1,
                       !.fid = <<>>, !.allCasts = <<>>], cfg, clk)

\* lines 164-167: the fetch rejected; `continue` goes to the next user
OnFetchError_Hang(s, cfg, clk) ==
    [s EXCEPT !.pc = "rejected", !.calls = SetOutcome(@, "fail")]

OnFetchError_Abort(s, cfg, clk) ==
    BeginChannel([s EXCEPT !.calls = SetOutcome(@, "fail"),
                     !.digest = Append(@, Entry(cfg[s.ci].channel, <<>>, <<>>))],
                 s.ci + 1, cfg, clk)

OnFetchError(s, cfg, clk) ==
    BeginUser([s EXCEPT !.ui = @ + 1, !.calls = SetOutcome(@, "fail")], cfg, clk)

\* lines 139-142 and 145-148: no FID, or the lookup rejected; `continue`
OnLookupError_FetchAnyway(s, cfg, clk) ==
    [s EXCEPT !.pc = "fetch",
        !.calls = Append(SetOutcome(@, "fail"), Call("fetch", s, <<>>))]

OnLookupError(s, cfg, clk) ==
    BeginUser([s EXCEPT !.ui = @ + 1, !.calls = SetOutcome(@, "fail")], cfg, clk)

\* the handler of r moves to s; a finished pass writes the cache
Commit_KeepExisting(r, s) ==
    /\ req' = [req EXCEPT ![r] = s]
    /\ cache' = IF s.pc = "servedFresh" /\ cache.data = <<>>
                THEN CacheWrite(cache, s.digest, clock)
                ELSE cache

Commit(r, s) ==
    /\ req' = [req EXCEPT ![r] = s]
    /\ cache' = IF s.pc = "servedFresh"
                THEN CacheWrite(cache, s.digest, clock)
                ELSE cache

----------------------------------------------------------------------------
(* Actions *)

\* GET / arrives (lines 398-424): served from the cache, or a fetch pass
\* starts and runs to its first provider call
Request_SingleFlight(r, forceRefresh) ==
    /\ req[r].pc = "idle"
    /\ IF \/ IsCacheValid(forceRefresh, cache, clock)
          \/ \E q \in Reqs \ {r} :
                req[q].pc \in {"lookup", "lookupDelay", "fetch", "fetchDelay"}
       THEN /\ req' = [req EXCEPT ![r] =
                         [IdleReq EXCEPT !.pc = "servedCache",
                             !.forceRefresh = forceRefresh,
                             !.cacheAge = CacheAge(cache, clock),
                             !.sent = <<[digest |-> IF cache.data = <<>> THEN <<>>
                                                    ELSE cache.data[1],
                                         cacheTimestamp |-> cache.timestamp]>>]]
            /\ UNCHANGED cache
       ELSE Commit(r, BeginChannel([IdleReq EXCEPT !.forceRefresh = forceRefresh,
                                       !.cacheAge = CacheAge(cache, clock)],
                                   1, CHANNEL_USERS, clock))
    /\ UNCHANGED <<clock, CHANNEL_USERS, arg, ret>>

Request(r, forceRefresh) ==
    /\ req[r].pc = "idle"
    /\ IF IsCacheValid(forceRefresh, cache, clock)
       THEN /\ req' = [req EXCEPT ![r] =
                         [IdleReq EXCEPT !.pc = "servedCache",
                             !.forceRefresh = forceRefresh,
                             !.cacheAge = CacheAge(cache, clock),
                             !.sent = <<[digest |-> cache.data[1],
                                         cacheTimestamp |-> cache.timestamp]>>]]
            /\ UNCHANGED cache
       ELSE Commit(r, BeginChannel([IdleReq EXCEPT !.forceRefresh = forceRefresh,
                                       !.cacheAge = CacheAge(cache, clock)],
                                   1, CHANNEL_USERS, clock))
    /\ UNCHANGED <<clock, CHANNEL_USERS, arg, ret>>

\* lookupUserByUsername settles (lines 137-148); out = [kind, fid] with kind
\* "throw" (rejected) or "ok" (fid the optional FID of the response)
LookupReturn(r, out) ==
    LET s == req[r]
    IN  /\ s.pc = "lookup"
        /\ IF out.kind = "ok" /\ Truthy(out.fid)
           THEN Commit(r, [s EXCEPT !.pc = "lookupDelay", !.fid = out.fid,
                              !.timer = clock + DELAY_MS,
                              !.calls = SetOutcome(@, "ok")])
           ELSE Commit(r, OnLookupError(s, CHANNEL_USERS, clock))
        /\ UNCHANGED <<clock, CHANNEL_USERS, arg, ret>>

\* the 2 s timer after the lookup fires (line 144); the cast fetch is issued
LookupDelayDone(r) ==
    LET s == req[r]
    IN  /\ s.pc = "lookupDelay"
        /\ clock >= s.timer
        /\ Commit(r, [s EXCEPT !.pc = "fetch", !.timer = 0,
                         !.calls = Append(@, Call("fetch", s, s.fid))])
        /\ UNCHANGED <<clock, CHANNEL_USERS, arg, ret>>

\* fetchCastsForUser settles (lines 153-175); out = [kind, casts]
FetchReturn(r, out) ==
    LET s == req[r]
    IN  /\ s.pc = "fetch"
        /\ IF out.kind = "ok"
           THEN Commit(r, [s EXCEPT !.pc = "fetchDelay",
                              !.allCasts = @ \o out.casts,
                              !.timer = clock + DELAY_MS,
                              !.calls = SetOutcome(@, "ok")])
           ELSE Commit(r, OnFetchError(s, CHANNEL_USERS, clock))
        /\ UNCHANGED <<clock, CHANNEL_USERS, arg, ret>>

\* the 2 s timer after the fetch fires (line 175); the loop goes on
FetchDelayDone(r) ==
    LET s == req[r]
    IN  /\ s.pc = "fetchDelay"
        /\ clock >= s.timer
        /\ Commit(r, BeginUser([s EXCEPT !.ui = @ + 1, !.timer = 0],
                               CHANNEL_USERS, clock))
        /\ UNCHANGED <<clock, CHANNEL_USERS, arg, ret>>

\* the activation is over; the slot takes the next request
Close(r) ==
    /\ req[r].pc \in {"servedCache", "servedFresh"}
    /\ req' = [req EXCEPT ![r] = IdleReq]
    /\ UNCHANGED <<clock, cache, CHANNEL_USERS, arg, ret>>

\* time passes, by the cool-down delay (at most n times in a row) or by the
\* cache duration
Tick(d, n) ==
    /\ IF d = DELAY_MS
       THEN (clock - StartClock) % CACHE_DURATION < n * DELAY_MS
       ELSE clock + d <= StartClock + MaxLongTicks * CACHE_DURATION + n * DELAY_MS
    /\ clock' = clock + d
    /\ UNCHANGED <<cache, CHANNEL_USERS, req, arg, ret>>

\* time passes by the cool-down delay: at most n times while no timer is
\* pending, and whenever a timer is pending that has not fired yet
Elapse(n) ==
    /\ \/ clock - StartClock < n * DELAY_MS
       \/ \E r \in Reqs : /\ req[r].pc \in {"lookupDelay", "fetchDelay"}
                          /\ clock < req[r].timer
    /\ clock' = clock + DELAY_MS
    /\ UNCHANGED <<cache, CHANNEL_USERS, req, arg, ret>>

\* the score harness applies calculateScore to its input
ApplyScore ==
    /\ arg # <<>>
    /\ ret = <<>>
    /\ ret' = <<calculateScore(arg[1])>>
    /\ UNCHANGED <<clock, cache, CHANNEL_USERS, req, arg>>

----------------------------------------------------------------------------
(* Environments: configurations and what the provider may answer           *)

Opt(S) == {<<>>} \cup {<<n>> : n \in S}

Cast(hash, timestamp, reactions, replies, likes, recasts) ==
    [ hash |-> hash, timestamp |-> timestamp, reactions |-> reactions,
      replies |-> replies, likes |-> likes, recasts |-> recasts ]

\* a cast in the provider's usual shape
Usual(hash, timestamp, likes, count, recasts) ==
    Cast(hash, timestamp, <<[likes |-> <<likes>>, recasts |-> <<recasts>>]>>,
         <<[count |-> <<count>>, length |-> <<>>]>>, <<>>, <<>>)

\* every shape of engagement data, for the score harness
ScoreInputs ==
    { Cast("x", NoTimestamp, reactions, replies, likes, <<>>) :
        reactions \in {<<>>} \cup
            { <<[likes |-> l, recasts |-> rc]>> :
                l \in Opt(0..MaxCount), rc \in Opt(0..MaxCount) },
        replies \in {<<>>} \cup
            { <<[count |-> c, length |-> <<>>]>> : c \in Opt(0..MaxCount) },
        likes \in {<<>>, <<MaxCount>>} }

Recent == StartClock - 60 * 60 * 1000
Boundary == StartClock - WINDOW_MS
Future == StartClock + WINDOW_MS

\* the casts the provider holds, in the order it returns them
Timeline ==
    << Usual("a1", Iso(Recent), 10, 0, 0),
       Usual("a2", Iso(Recent), 50, 0, 0),
       Usual("a3", Iso(Recent), 5, 0, 0),
       Usual("b1", Iso(Recent), 30, 0, 0),
       Usual("tie", Iso(Recent), 0, 5, 0),
       Usual("edge", Iso(Boundary), 0, 3, 1),
       Usual("old", Iso(Boundary - 1), 100, 0, 0),
       Usual("future", Iso(Future), 0, 0, 20),
       Usual("nots", NoTimestamp, 70, 0, 0),
       Usual("bad", BadTimestamp, 80, 0, 0),
       Usual("null", NullTimestamp, 90, 0, 0),
       Cast("alt", Iso(Recent), <<>>, <<>>, <<4>>, <<1>>) >>

Throw == [kind |-> "throw", casts |-> <<>>, fid |-> <<>>]
Casts(casts) == [kind |-> "ok", casts |-> casts, fid |-> <<>>]
User(fid) == [kind |-> "ok", casts |-> <<>>, fid |-> fid]

\* a response holds up to `limit` consecutive casts of the timeline
Pages ==
    { SubSeq(Timeline, w[1], w[1] + w[2] - 1) :
        w \in { v \in (1..Len(Timeline)) \X (0..Min(MaxPage, FETCH_LIMIT)) :
                   v[1] + v[2] - 1 <= Len(Timeline) } }

RichFetchOutcomes == {Throw} \cup {Casts(p) : p \in Pages}

FetchOutcomes ==
    { Throw, Casts(SubSeq(Timeline, 1, 2)) }

LookupOutcomes == { Throw, User(<<>>), User(<<0>>), User(<<3>>) }

\* a failure, a page of casts, and a page with a null element
PassFetchOutcomes ==
    { Throw, Casts(SubSeq(Timeline, 1, 2)), Casts(<<Timeline[4], NullCast>>) }

OneChannel ==
    << [channel |-> "/farcaster", users |-> <<Fid(1325), Fid(15983), Fid(99)>>] >>

TwoChannels ==
    << [channel |-> "/farcaster",
        users |-> <<Fid(1325)>>],
       [channel |-> "/higher", users |-> <<Fid(3)>>] >>

ThreeChannels ==
    << [channel |-> "/farcaster",
        users |-> <<Username(<<"d", "w", "r">>), Fid(1325)>>],
       [channel |-> "/ai", users |-> <<>>],
       [channel |-> "/higher", users |-> <<Fid(3)>>] >>

\* a roster longer than the four users a channel is cut to
LongRoster ==
    << [channel |-> "/farcaster",
        users |-> <<Username(<<"d", "w", "r">>), Fid(1325), Username(<<"v">>),
                    Fid(99), Fid(15983), Username(<<"j">>)>>],
       [channel |-> "/ai", users |-> <<>>],
       [channel |-> "/higher", users |-> <<Fid(3)>>] >>

\* author references of every kind: usernames that begin with digits or
\* with 0x, a username without digits, and a FID
MixedRefs ==
    << [channel |-> "/farcaster",
        users |-> <<Username(<<"6", "b">>), Username(<<"d", "w", "r">>),
                    Fid(3), Username(<<"0", "x", "e", "n">>)>>] >>

----------------------------------------------------------------------------
(* Specifications *)

InitServer(cfg) ==
    /\ clock = StartClock
    /\ cache = EmptyCache
    /\ CHANNEL_USERS = cfg
    /\ req = [r \in Reqs |-> IdleReq]
    /\ arg = <<>>
    /\ ret = <<>>

\* the server under requests that may overlap, over two channels of one
\* author each
Init == InitServer(TwoChannels)

Next ==
    \/ \E r \in Reqs, forceRefresh \in BOOLEAN : Request(r, forceRefresh)
    \/ \E r \in Reqs, out \in FetchOutcomes : FetchReturn(r, out)
    \/ \E r \in Reqs : FetchDelayDone(r)
    \/ \E r \in Reqs : Close(r)
    \/ \E d \in {DELAY_MS, CACHE_DURATION} : Tick(d, MaxShortTicks)

Spec == Init /\ [][Next]_vars

\* requests that do not overlap, over three channels: FIDs and a username,
\* and a channel without users
InitCache == InitServer(ThreeChannels)

NextCache ==
    \/ \E forceRefresh \in BOOLEAN : Request(1, forceRefresh)
    \/ \E out \in LookupOutcomes : LookupReturn(1, out)
    \/ LookupDelayDone(1)
    \/ \E out \in FetchOutcomes : FetchReturn(1, out)
    \/ FetchDelayDone(1)
    \/ Close(1)
    \/ \E d \in {DELAY_MS, CACHE_DURATION} : Tick(d, MaxCacheTicks)

SpecCache == InitCache /\ [][NextCache]_vars

\* requests that do not overlap, to one channel of three authors, over every
\* answer of the provider
InitRank == InitServer(OneChannel)

NextRank ==
    \/ Request(1, FALSE)
    \/ \E out \in RichFetchOutcomes : FetchReturn(1, out)
    \/ FetchDelayDone(1)
    \/ Close(1)
    \/ Tick(DELAY_MS, MaxRankTicks)

SpecRank == InitRank /\ [][NextRank]_vars

\* one handler's passes over a long roster, an empty one and a short one,
\* the provider failing or answering with a malformed page at any call
InitPass == InitServer(LongRoster)

NextPass ==
    \/ Request(1, FALSE)
    \/ \E out \in LookupOutcomes : LookupReturn(1, out)
    \/ LookupDelayDone(1)
    \/ \E out \in PassFetchOutcomes : FetchReturn(1, out)
    \/ FetchDelayDone(1)
    \/ Close(1)
    \/ Tick(DELAY_MS, MaxPassTicks)

SpecPass == InitPass /\ [][NextPass]_vars

\* requests that may overlap while the cache is empty, without forceRefresh
\* and without the cache ever expiring
InitFlight == InitServer(TwoChannels)

NextFlight ==
    \/ \E r \in Reqs : Request(r, FALSE)
    \/ \E r \in Reqs, out \in FetchOutcomes : FetchReturn(r, out)
    \/ \E r \in Reqs : FetchDelayDone(r)
    \/ \E r \in Reqs : Close(r)
    \/ Tick(DELAY_MS, MaxShortTicks)

SpecFlight == InitFlight /\ [][NextFlight]_vars

\* one handler's passes over a roster of references of every kind
InitRefs == InitServer(MixedRefs)

NextRefs ==
    \/ Request(1, FALSE)
    \/ \E out \in LookupOutcomes : LookupReturn(1, out)
    \/ LookupDelayDone(1)
    \/ \E out \in FetchOutcomes : FetchReturn(1, out)
    \/ FetchDelayDone(1)
    \/ Close(1)
    \/ Tick(DELAY_MS, MaxRankTicks)

SpecRefs == InitRefs /\ [][NextRefs]_vars

\* one handler's pass over the long roster when every provider call settles,
\* every timer fires and time goes on: weak fairness of each of these steps
\* (for FetchDelayDone with its enabling condition written out)
InitLive == InitServer(LongRoster)

NextLive ==
    \/ Request(1, FALSE)
    \/ \E out \in LookupOutcomes : LookupReturn(1, out)
    \/ LookupDelayDone(1)
    \/ \E out \in PassFetchOutcomes : FetchReturn(1, out)
    \/ FetchDelayDone(1)
    \/ Close(1)
    \/ Elapse(MaxLiveTicks)

SpecLive ==
    /\ InitLive
    /\ [][NextLive]_vars
    /\ WF_vars(\E out \in LookupOutcomes : LookupReturn(1, out))
    /\ WF_vars(\E out \in PassFetchOutcomes : FetchReturn(1, out))
    /\ WF_vars(LookupDelayDone(1))
    /\ \/ []<>~(req[1].pc = "fetchDelay" /\ clock >= req[1].timer)
       \/ []<><<FetchDelayDone(1)>>_vars
    /\ WF_vars(Elapse(MaxLiveTicks))

\* calculateScore applied to every shape of engagement data
InitScore ==
    /\ clock = StartClock
    /\ cache = EmptyCache
    /\ CHANNEL_USERS = <<>>
    /\ req = [r \in Reqs |-> IdleReq]
    /\ arg \in {<<c>> : c \in ScoreInputs}
    /\ ret = <<>>

NextScore == ApplyScore

SpecScore == InitScore /\ [][NextScore]_vars

----------------------------------------------------------------------------
(* Properties.  What a claim expects is written from the casts and the     *)
(* configuration themselves, not with the operators of the model.          *)

LikesOf(cast) ==
    IF cast.reactions # <<>> /\ cast.reactions[1].likes # <<>>
    THEN cast.reactions[1].likes[1] ELSE 0

RepliesOf(cast) ==
    IF cast.replies # <<>> /\ cast.replies[1].count # <<>>
    THEN cast.replies[1].count[1] ELSE 0

RecastsOf(cast) ==
    IF cast.reactions # <<>> /\ cast.reactions[1].recasts # <<>>
    THEN cast.reactions[1].recasts[1] ELSE 0

ExpectedScore(cast) == LikesOf(cast) + 2 * RepliesOf(cast) + 3 * RecastsOf(cast)

\* every digest that is held in the cache, being assembled, or was sent
Digests ==
    {cache.data[i] : i \in 1..Len(cache.data)}
        \cup {req[r].digest : r \in Reqs}
        \cup UNION {{req[r].sent[i].digest : i \in 1..Len(req[r].sent)} : r \in Reqs}

Hashes(s) == [i \in 1..Len(s) |-> s[i].hash]
Scores(s) == [i \in 1..Len(s) |-> s[i].score]
Outcomes(s) == [i \in 1..Len(s) |-> s[i].outcome]
Count(h, s) == Cardinality({i \in 1..Len(s) : s[i].hash = h})

\* the fetched casts of s's channel whose date is at or after now - 48 h
Kept(s) ==
    SelectSeq(s.allCasts,
              LAMBDA c : /\ c.timestamp.kind = "iso"
                         /\ c.timestamp.ms >= s.now - 48 * 60 * 60 * 1000)

\* cast c is in the entry, or five casts that score no less are
Retained(c, casts) ==
    \/ \E i \in 1..Len(casts) : casts[i].hash = c.hash
    \/ /\ Len(casts) = 5
       /\ \A i \in 1..Len(casts) : casts[i].score >= ExpectedScore(c)

\* casts is a choice of the five best of kept
TopSelection(casts, kept) ==
    /\ Len(casts) = Min(5, Len(kept))
    /\ \A i \in 1..Len(casts) :
          /\ Count(casts[i].hash, casts) <= Count(casts[i].hash, kept)
          /\ \E j \in 1..Len(kept) :
                /\ kept[j].hash = casts[i].hash
                /\ casts[i].score = ExpectedScore(kept[j])
    /\ \A j \in 1..Len(kept) :
          Count(kept[j].hash, casts) < Count(kept[j].hash, kept)
              => \A i \in 1..Len(casts) : casts[i].score >= ExpectedScore(kept[j])

\* the handler of r has sent the digest of its own pass over one channel
Ranked(r) == req[r].pc = "servedFresh" /\ Len(req[r].digest) = 1

\* C1: calculateScore returns likes + 2*replies + 3*recasts, each count
\* taken as 0 when it is missing; a cast without engagement data scores 0.
C1_ScoreIsWeightedSum ==
    ret # <<>> =>
        /\ ret[1] = ExpectedScore(arg[1])
        /\ (arg[1].reactions = <<>> /\ arg[1].replies = <<>> => ret[1] = 0)

C1_Witness ==
    /\ ret = <<11>>
    /\ LikesOf(arg[1]) = 1
    /\ RepliesOf(arg[1]) = 2
    /\ RecastsOf(arg[1]) = 2

\* C2: every channel entry of every digest that is sent or cached holds at
\* most 5 casts, in non-increasing order of score.
C2_AtMostFiveByScore ==
    \A d \in Digests : \A k \in 1..Len(d) :
        /\ Len(d[k].casts) <= 5
        /\ \A i \in 1..(Len(d[k].casts) - 1) :
              d[k].casts[i].score >= d[k].casts[i + 1].score

C2_Witness ==
    \E r \in Reqs :
        /\ req[r].pc = "servedCache"
        /\ cache.data = <<req[r].sent[1].digest>>
        /\ Len(cache.data[1][1].casts) = 5
        /\ cache.data[1][1].casts[1].score > cache.data[1][1].casts[5].score

\* C3: a channel entry is the top-5 selection over the in-window casts of
\* all its authors merged: no such cast that is left out scores higher than
\* a cast of the entry.
C3_TopFiveOfMerged ==
    \A r \in Reqs :
        Ranked(r) => TopSelection(req[r].digest[1].casts, Kept(req[r]))

C3_Witness ==
    \E r \in Reqs :
        /\ Ranked(r)
        /\ Hashes(req[r].allCasts) = <<"a1", "a2", "a3", "b1">>
        /\ Scores(req[r].digest[1].casts) = <<50, 30, 10, 5>>

C6_NoDateExcluded ==
    \A d \in Digests : \A k \in 1..Len(d) : \A i \in 1..Len(d[k].casts) :
        d[k].casts[i].timestamp.kind \notin {"undefined", "null", "invalid"}

C6_Witness ==
    \E r \in Reqs :
        /\ Ranked(r)
        /\ req[r].digest[1].casts # <<>>
        /\ \A kind \in {"undefined", "invalid"} :
              \E j \in 1..Len(req[r].allCasts) :
                  /\ req[r].allCasts[j].timestamp.kind = kind
                  /\ \A i \in 1..Len(req[r].digest[1].casts) :
                        ExpectedScore(req[r].allCasts[j])
                            > req[r].digest[1].casts[i].score

\* a request arrives at the handler of r in this step
Arrives(r) == req[r].pc = "idle" /\ req'[r].pc # "idle"

\* the cache holds a digest captured less than 30 minutes ago
CacheIsFresh ==
    /\ cache.data # <<>>
    /\ cache.timestamp # <<>>
    /\ clock - cache.timestamp[1] < 30 * 60 * 1000

\* the handler of r has just started a fetch pass: one provider call issued
PassStarted(s) == s.pc \in {"fetch", "lookup"} /\ Len(s.calls) = 1 /\ s.digest = <<>>

\* the authors a pass has to process: <<channel index, user index>>
RosterPairs ==
    { <<ci, ui>> : ci \in 1..Len(CHANNEL_USERS), ui \in 1..4 } \cap
    { p \in (1..Len(CHANNEL_USERS)) \X (1..4) :
        p[2] <= Len(CHANNEL_USERS[p[1]].users) }

\* C7: a request without forceRefresh that finds a digest captured less than
\* 30 minutes ago issues no provider call, is answered with the cached
\* digest, and leaves the cache as it is.
C7_CacheHitTouchesNothing ==
    [][ \A r \in Reqs :
            Arrives(r) /\ ~req'[r].forceRefresh /\ CacheIsFresh
                => /\ req'[r].pc = "servedCache"
                   /\ req'[r].calls = <<>>
                   /\ req'[r].sent = <<[digest |-> cache.data[1],
                                        cacheTimestamp |-> cache.timestamp]>>
                   /\ cache' = cache ]_vars

C7_Witness ==
    \E r \in Reqs :
        /\ req[r].pc = "servedCache"
        /\ req[r].calls = <<>>
        /\ req[r].cacheAge # <<>>
        /\ req[r].cacheAge[1] > 0
        /\ cache.data = <<req[r].sent[1].digest>>
        /\ \E k \in 1..Len(cache.data[1]) : cache.data[1][k].casts # <<>>

\* C8: a request is served from the cache only if a digest is present and
\* its age is strictly less than 30 minutes; with an empty slot or an age of
\* 30 minutes or more the request starts a fetch pass.
C8_ServedOnlyWhenFresh ==
    [][ \A r \in Reqs :
            Arrives(r)
                => /\ req'[r].pc = "servedCache" => CacheIsFresh
                   /\ ~CacheIsFresh => PassStarted(req'[r]) ]_vars

C8_Witness ==
    \E r \in Reqs :
        /\ PassStarted(req[r])
        /\ ~req[r].forceRefresh
        /\ req[r].cacheAge = <<30 * 60 * 1000>>
        /\ cache.data # <<>>

\* C9: a request with forceRefresh starts a fetch pass whether or not the
\* cache is valid; the pass calls the provider for every author of every
\* channel, one after the other in configured order, and when it completes
\* its digest is in the cache, stamped with the completion time.
C9_ForceRefreshRefetches ==
    [][ \A r \in Reqs :
            /\ Arrives(r) /\ req'[r].forceRefresh => PassStarted(req'[r])
            /\ req[r].pc # "servedFresh" /\ req'[r].pc = "servedFresh"
                    /\ req'[r].forceRefresh
                => LET s == req'[r]
                   IN  /\ cache' = [data |-> <<s.digest>>, timestamp |-> <<clock>>]
                       /\ Len(s.digest) = Len(CHANNEL_USERS)
                       /\ \A k \in 1..Len(s.digest) :
                             s.digest[k].channel = CHANNEL_USERS[k].channel
                       /\ {<<s.calls[i].ci, s.calls[i].ui>> : i \in 1..Len(s.calls)}
                              = RosterPairs
                       /\ \A i \in 1..Len(s.calls) : s.calls[i].outcome # "pending"
                       /\ \A i, j \in 1..Len(s.calls) :
                             i < j => \/ s.calls[i].ci < s.calls[j].ci
                                      \/ /\ s.calls[i].ci = s.calls[j].ci
                                         /\ s.calls[i].ui <= s.calls[j].ui ]_vars

C9_Witness ==
    \E r \in Reqs :
        /\ req[r].pc = "servedFresh"
        /\ req[r].forceRefresh
        /\ req[r].cacheAge # <<>>
        /\ req[r].cacheAge[1] < 30 * 60 * 1000
        /\ cache = [data |-> <<req[r].digest>>, timestamp |-> <<clock>>]
        /\ Len(req[r].digest) = Len(CHANNEL_USERS)
        /\ \E k \in 1..Len(req[r].digest) : req[r].digest[k].casts # <<>>

\* C10: a cast fetch that fails does not abort the channel aggregation: the
\* author adds no cast, the casts fetched so far are kept, the next author
\* of the roster is fetched, and after the last author the channel is
\* ranked over the casts of the others.
C10_FetchFailureIsolated ==
    [][ \A r \in Reqs :
            /\ req[r].pc = "fetch"
            /\ req'[r] # req[r]
            /\ req'[r].calls[Len(req[r].calls)].outcome = "fail"
            => LET s == req[r]
                   t == req'[r]
                   users == CHANNEL_USERS[s.ci].users
               IN  /\ t.allCasts = s.allCasts
                   /\ IF s.ui < Len(users) /\ s.ui < 4
                      THEN /\ t.pc \in {"fetch", "lookup"}
                           /\ t.ci = s.ci
                           /\ t.ui = s.ui + 1
                           /\ t.digest = s.digest
                           /\ Len(t.calls) = Len(s.calls) + 1
                      ELSE /\ Len(t.digest) > Len(s.digest)
                           /\ t.digest[Len(s.digest) + 1].error = <<>>
                           /\ TopSelection(t.digest[Len(s.digest) + 1].casts,
                                           Kept(s)) ]_vars

C10_Witness ==
    \E r \in Reqs :
        /\ Ranked(r)
        /\ Outcomes(req[r].calls) = <<"ok", "fail", "ok">>
        /\ Hashes(req[r].allCasts) = <<"a1", "b1">>
        /\ Scores(req[r].digest[1].casts) = <<30, 10>>

\* the provider calls of s made for author number ui of channel number ci
CallsFor(s, ci, ui) ==
    SelectSeq(s.calls, LAMBDA c : c.ci = ci /\ c.ui = ui)

Kinds(s) == [i \in 1..Len(s) |-> s[i].kind]

\* the lookup of r's handler settles in this step without a FID
LookupFails(r) ==
    /\ req[r].pc = "lookup"
    /\ req'[r] # req[r]
    /\ req'[r].calls[Len(req[r].calls)].outcome = "fail"

\* C11: when the lookup of a username throws or returns no FID, no cast
\* fetch is ever issued for that author, the author adds no cast, no error
\* is recorded, and the aggregation goes on with the next author of the
\* roster (or ranks the channel after the last author).
C11_LookupFailureSkipsAuthor ==
    [][ \A r \in Reqs :
            /\ \A i \in 1..Len(req'[r].calls) :
                   LET c == req'[r].calls[i]
                   IN  c.kind = "lookup" /\ c.outcome = "fail"
                           => Kinds(CallsFor(req'[r], c.ci, c.ui)) = <<"lookup">>
            /\ LookupFails(r)
                => LET s == req[r]
                       t == req'[r]
                       users == CHANNEL_USERS[s.ci].users
                   IN  /\ t.pc \in {"fetch", "lookup", "servedFresh"}
                       /\ \A k \in 1..Len(t.digest) : t.digest[k].error = <<>>
                       /\ IF s.ui < Len(users) /\ s.ui < 4
                          THEN /\ t.pc \in {"fetch", "lookup"}
                               /\ t.ci = s.ci
                               /\ t.ui = s.ui + 1
                               /\ t.allCasts = s.allCasts
                               /\ t.digest = s.digest
                               /\ Len(t.calls) = Len(s.calls) + 1
                               /\ t.calls[Len(t.calls)].ui = s.ui + 1
                          ELSE /\ Len(t.digest) > Len(s.digest)
                               /\ TopSelection(t.digest[Len(s.digest) + 1].casts,
                                               Kept(s)) ]_vars

C11_Witness ==
    \E r \in Reqs :
        /\ req[r].pc = "servedFresh"
        /\ Kinds(CallsFor(req[r], 1, 1)) = <<"lookup">>
        /\ Outcomes(CallsFor(req[r], 1, 1)) = <<"fail">>
        /\ Kinds(CallsFor(req[r], 1, 2)) = <<"fetch">>
        /\ Outcomes(CallsFor(req[r], 1, 2)) = <<"ok">>
        /\ Hashes(req[r].digest[1].casts) = <<"a2", "a1">>
        /\ req[r].digest[1].error = <<>>

\* the aggregation of r's current channel ends in this step
ChannelEnds(r) ==
    /\ req[r].pc \in {"lookup", "fetch", "fetchDelay"}
    /\ Len(req'[r].digest) > Len(req[r].digest)

\* an element of the fetched casts is not an object: ranking them throws
RankingThrows(casts) ==
    \E i \in 1..Len(casts) : casts[i].timestamp.kind = "TypeError"

\* C12 as claimed: when ranking the casts of a channel throws, the entry of
\* that channel has an empty cast list and a non-empty error description.
C12_ChannelErrorReported ==
    [][ \A r \in Reqs :
            ChannelEnds(r) /\ RankingThrows(req[r].allCasts)
                => LET entry == req'[r].digest[Len(req[r].digest) + 1]
                   IN  /\ entry.casts = <<>>
                       /\ entry.error # <<>> ]_vars

\* C13 as claimed: the step in which a provider call settles issues no
\* provider call; when the call succeeded a timer of 2000 ms is started;
\* and a later call of the pass is issued only once that timer has fired.
C13_CoolDownAfterEveryCall ==
    [][ \A r \in Reqs :
            LET s == req[r]
                t == req'[r]
            IN  /\ s.pc \in {"lookup", "fetch"} /\ t # s
                    => /\ Len(t.calls) = Len(s.calls)
                       /\ t.pc \in {"lookupDelay", "fetchDelay"}
                              => t.timer = clock + 2000
                /\ s.pc # "idle" /\ Len(t.calls) > Len(s.calls)
                    => /\ s.pc \in {"lookupDelay", "fetchDelay"}
                       /\ clock >= s.timer ]_vars

\* the handler s is in a fetch pass that has not yet sent its digest
InPass(s) == s.pc \in {"lookup", "lookupDelay", "fetch", "fetchDelay"}

\* call c is made for an author that comes no later than the author of d
NoLater(c, d) == c.ci < d.ci \/ (c.ci = d.ci /\ c.ui <= d.ui)

\* C14: within one fetch pass at most one provider call is outstanding:
\* every call but the last has completed, the last is outstanding exactly
\* while the handler awaits it, the calls follow the order of channels and
\* of each roster, and while channel number ci is aggregated the entries of
\* all channels before it, and no others, are in the digest.
C14_OneCallAtATime ==
    \A r \in Reqs :
        LET s == req[r]
        IN  /\ \A i \in 1..Len(s.calls) :
                  s.calls[i].outcome = "pending"
                      <=> i = Len(s.calls) /\ s.pc \in {"lookup", "fetch"}
            /\ \A i, j \in 1..Len(s.calls) :
                  i < j => NoLater(s.calls[i], s.calls[j])
            /\ InPass(s)
                  => /\ Len(s.digest) = s.ci - 1
                     /\ \A i \in 1..Len(s.calls) : s.calls[i].ci <= s.ci
                     /\ s.calls[Len(s.calls)].ci = s.ci
                     /\ s.calls[Len(s.calls)].ui = s.ui

C14_Witness ==
    \E r \in Reqs :
        /\ req[r].pc = "fetch"
        /\ req[r].ci = 3
        /\ Kinds(req[r].calls)
              = <<"lookup", "fetch", "fetch", "lookup", "fetch", "fetch">>
        /\ Outcomes(req[r].calls)
              = <<"ok", "ok", "fail", "fail", "ok", "pending">>

ChannelsOf(d) == [k \in 1..Len(d) |-> d[k].channel]

\* the digests that a finished pass produced: sent or held in the cache
Produced ==
    {cache.data[i] : i \in 1..Len(cache.data)}
        \cup UNION {{req[r].sent[i].digest : i \in 1..Len(req[r].sent)} : r \in Reqs}

\* C15: every digest that a fetch pass produced holds exactly one entry per
\* configured channel, in the configured order, whatever failed during the
\* pass; the digest under assembly holds the entries of the first channels.
C15_OneEntryPerChannel ==
    /\ \A d \in Produced : ChannelsOf(d) = ChannelsOf(CHANNEL_USERS)
    /\ \A r \in Reqs :
          /\ Len(req[r].digest) <= Len(CHANNEL_USERS)
          /\ ChannelsOf(req[r].digest)
                = SubSeq(ChannelsOf(CHANNEL_USERS), 1, Len(req[r].digest))

C15_Witness ==
    \E r \in Reqs :
        /\ req[r].pc = "servedFresh"
        /\ cache.data = <<req[r].digest>>
        /\ ChannelsOf(req[r].digest) = <<"/farcaster", "/ai", "/higher">>
        /\ \E i, j \in 1..Len(req[r].calls) :
              /\ req[r].calls[i].kind = "lookup" /\ req[r].calls[i].outcome = "fail"
              /\ req[r].calls[j].kind = "fetch" /\ req[r].calls[j].outcome = "fail"
        /\ req[r].digest[1].casts = <<>>
        /\ RankingThrows(req[r].allCasts)

\* the calls of kind made by s for channel number ci
CallsOfKind(s, ci, kind) ==
    SelectSeq(s.calls, LAMBDA c : c.ci = ci /\ c.kind = kind)

\* C16: only the first 4 authors of a roster are processed: no lookup and no
\* fetch is issued for an author at position 5 or later, and one channel
\* aggregation issues at most 4 fetches and at most 4 lookups.
C16_FirstFourAuthorsOnly ==
    \A r \in Reqs :
        /\ \A i \in 1..Len(req[r].calls) : req[r].calls[i].ui \in 1..4
        /\ \A ci \in 1..Len(CHANNEL_USERS) :
              /\ Len(CallsOfKind(req[r], ci, "fetch")) <= 4
              /\ Len(CallsOfKind(req[r], ci, "lookup")) <= 4

C16_Witness ==
    \E r \in Reqs :
        /\ Len(CHANNEL_USERS[1].users) > 4
        /\ req[r].pc = "servedFresh"
        /\ Len(CallsOfKind(req[r], 1, "fetch")) = 4
        /\ Len(CallsOfKind(req[r], 1, "lookup")) = 2
        /\ Len(CallsFor(req[r], 1, 4)) = 1
        /\ Len(CallsFor(req[r], 3, 1)) = 1

\* C17: a channel configured with 0 authors has, in every digest, an entry
\* with an empty cast list and no error, and no provider call is issued for
\* it.
C17_EmptyRosterEmptyEntry ==
    \A k \in 1..Len(CHANNEL_USERS) :
        Len(CHANNEL_USERS[k].users) = 0
            => /\ \A d \in Digests :
                     k <= Len(d)
                         => d[k] = [channel |-> CHANNEL_USERS[k].channel,
                                    casts |-> <<>>, error |-> <<>>]
               /\ \A r \in Reqs : \A i \in 1..Len(req[r].calls) :
                     req[r].calls[i].ci # k

C17_Witness ==
    \E r \in Reqs :
        /\ req[r].pc = "servedFresh"
        /\ CHANNEL_USERS[2].users = <<>>
        /\ req[r].digest[2] = [channel |-> "/ai", casts |-> <<>>, error |-> <<>>]
        /\ req[r].digest[1].casts # <<>>
        /\ req[r].digest[3].casts # <<>>
        /\ CallsFor(req[r], 3, 1) # <<>>

\* the pass of r's handler completes in this step
Completes(r) == req[r].pc # "servedFresh" /\ req'[r].pc = "servedFresh"

\* C18: there is no single-flight guard.  A request that arrives while the
\* cache is invalid and another handler's pass is under way starts a pass of
\* its own; every pass calls the provider for every author of every channel
\* and writes its digest to the cache in the step in which it completes.
C18_NoSingleFlight ==
    [][ \A r \in Reqs :
            /\ Arrives(r) /\ ~CacheIsFresh
                    /\ (\E q \in Reqs \ {r} : InPass(req[q]))
                => PassStarted(req'[r])
            /\ Completes(r)
                => /\ cache' = [data |-> <<req'[r].digest>>,
                                timestamp |-> <<clock>>]
                   /\ Len(req'[r].digest) = Len(CHANNEL_USERS)
                   /\ {<<req'[r].calls[i].ci, req'[r].calls[i].ui>> :
                          i \in 1..Len(req'[r].calls)} = RosterPairs ]_vars

\* the calls of two passes are outstanding at the same time, the second
\* pass having started without forceRefresh after the first
C18_Witness ==
    \E r, q \in Reqs :
        /\ r # q
        /\ req[r].pc = "fetch" /\ req[q].pc = "fetch"
        /\ ~req[q].forceRefresh
        /\ req[r].ci = 2 /\ req[q].ci = 1
        /\ req[r].calls[Len(req[r].calls)].outcome = "pending"
        /\ req[q].calls[Len(req[q].calls)].outcome = "pending"
        /\ cache.data = <<>>

IsPrefix(p, q) == Len(p) <= Len(q) /\ p = SubSeq(q, 1, Len(p))

\* the hashes of the entry's casts that score v, and of the fetched
\* in-window casts that score v, each in its order
EntryTies(casts, v) == Hashes(SelectSeq(casts, LAMBDA c : c.score = v))
FetchTies(kept, v) == Hashes(SelectSeq(kept, LAMBDA c : ExpectedScore(c) = v))

\* C19: the casts of an entry that have the same score are in the order in
\* which they were fetched (roster order, then the provider's order): for
\* every score, the entry's casts of that score are the first of the
\* fetched in-window casts of that score, in the same order.
C19_TiesKeepFetchOrder ==
    \A r \in Reqs :
        Ranked(r) =>
            LET casts == req[r].digest[1].casts
            IN  \A i \in 1..Len(casts) :
                    IsPrefix(EntryTies(casts, casts[i].score),
                             FetchTies(Kept(req[r]), casts[i].score))

C19_Witness ==
    \E r \in Reqs :
        /\ Ranked(r)
        /\ Hashes(req[r].allCasts) = <<"b1", "tie", "edge", "a1", "a2", "a3">>
        /\ Hashes(req[r].digest[1].casts) = <<"a2", "b1", "tie", "a1", "edge">>

\* C20 as claimed: every cast record of every entry has
\* score = likes + 2*replies + 3*recasts over its own likes, replies and
\* recasts fields.
C20_ScoreMatchesRecordCounts ==
    \A d \in Digests : \A k \in 1..Len(d) : \A i \in 1..Len(d[k].casts) :
        LET c == d[k].casts[i]
        IN  c.score = c.likes + 2 * c.replies + 3 * c.recasts

\* C21 as claimed: the provider calls made for an author begin with a lookup
\* of the name if and only if the reference is a string; the cast fetch for
\* a string comes after its lookup, and for a number the only call is the
\* cast fetch with that number.
C21_LookupIffNameString ==
    \A r \in Reqs : \A i \in 1..Len(req[r].calls) :
        LET c == req[r].calls[i]
            ref == CHANNEL_USERS[c.ci].users[c.ui]
            kinds == Kinds(CallsFor(req[r], c.ci, c.ui))
        IN  IF ref.type = "string"
            THEN /\ kinds \in {<<"lookup">>, <<"lookup", "fetch">>}
                 /\ CallsFor(req[r], c.ci, c.ui)[1].who = ref.str
            ELSE /\ kinds = <<"fetch">>
                 /\ c.who = <<ref.num>>

\* C22: if every provider call settles (and timers fire), a handler that
\* is in a fetch pass eventually completes it: it has sent a digest with an
\* entry for every configured channel and the cache holds a digest.
C22_PassCompletes ==
    \A r \in Reqs :
        InPass(req[r]) ~>
            /\ req[r].pc = "servedFresh"
            /\ Len(req[r].sent) = 1
            /\ Len(req[r].sent[1].digest) = Len(CHANNEL_USERS)
            /\ cache.data # <<>>
            /\ cache.timestamp # <<>>

C22_Witness ==
    \E r \in Reqs :
        /\ req[r].pc = "servedFresh"
        /\ cache.data = <<req[r].sent[1].digest>>
        /\ Len(req[r].sent[1].digest) = 3
        /\ Outcomes(req[r].calls)
              = <<"fail", "ok", "ok", "ok", "fail", "ok">>
        /\ RankingThrows(req[r].allCasts)

\* C23: in every state, also while passes are in progress, the cache is
\* either empty (no digest and no timestamp) or holds one digest with an
\* entry for every configured channel together with its capture time; never
\* one without the other, never the digest of an unfinished pass.
C23_CacheSlotWhole ==
    \/ cache.data = <<>> /\ cache.timestamp = <<>>
    \/ /\ Len(cache.data) = 1
       /\ Len(cache.timestamp) = 1
       /\ cache.timestamp[1] > 0
       /\ cache.timestamp[1] <= clock
       /\ Len(cache.data[1]) = Len(CHANNEL_USERS)
       /\ \A k \in 1..Len(CHANNEL_USERS) :
             cache.data[1][k].channel = CHANNEL_USERS[k].channel
       /\ \A r \in Reqs :
             InPass(req[r]) => Len(req[r].digest) < Len(cache.data[1])

C23_Witness ==
    \E r, q \in Reqs :
        /\ InPass(req[r])
        /\ Len(req[r].digest) = 1
        /\ req[q].pc = "servedFresh"
        /\ cache = [data |-> <<req[q].digest>>, timestamp |-> <<clock>>]
        /\ Len(req[q].digest) = 2

\* C24: the cache changes only in the step in which a pass completes, and
\* then it holds the digest of that pass stamped with the time of that step,
\* whatever it held before (last writer wins); the handler is answered with
\* the digest of its own pass, and its answer does not change when another
\* pass overwrites the cache.
C24_LastWriterWins ==
    [][ /\ \A r \in Reqs :
              /\ Completes(r)
                  => /\ cache' = [data |-> <<req'[r].digest>>,
                                  timestamp |-> <<clock>>]
                     /\ req'[r].sent = <<[digest |-> req'[r].digest,
                                          cacheTimestamp |-> <<clock>>]>>
              /\ req[r].pc = "servedFresh" /\ req'[r].pc = "servedFresh"
                  => req'[r].sent = req[r].sent
        /\ (\A r \in Reqs : ~Completes(r)) => cache' = cache ]_vars

\* r's first fetch succeeded, so r started at least 2000 ms before r.now;
\* both fetches of q failed, so q started and completed at q.now: r started
\* before q, q completed before r, and the cache holds r's digest
C24_Witness ==
    \E r, q \in Reqs :
        /\ req[r].pc = "servedFresh" /\ req[q].pc = "servedFresh"
        /\ req[r].cacheAge = <<>> /\ req[q].cacheAge = <<>>
        /\ Outcomes(req[r].calls) = <<"ok", "ok">>
        /\ Outcomes(req[q].calls) = <<"fail", "fail">>
        /\ req[r].now - 2000 < req[q].now
        /\ req[q].sent[1].cacheTimestamp = <<req[q].now>>
        /\ req[r].sent[1].cacheTimestamp[1] > req[q].now
        /\ cache = [data |-> <<req[r].digest>>,
                    timestamp |-> req[r].sent[1].cacheTimestamp]
        /\ req[q].sent[1].digest = req[q].digest
        /\ req[q].digest # req[r].digest

=============================================================================
